---- MODULE Spec2Model ----
(***************************************************************************)
(* State-machine model of the image editor of src/index.tsx (component     *)
(* App): the upload / filter / undo-redo history, the object URLs and      *)
(* image-decode callbacks behind it, and the asynchronous Generate job.    *)
(*                                                                         *)
(* React state is modelled by one variable per useState cell.  A handler   *)
(* runs atomically and sees the state of the latest render; a callback     *)
(* registered by a handler (img.onload, the continuation of an await)      *)
(* sees the values its closure captured when the handler ran, which the    *)
(* model stores in the pending decode / job record.                        *)
(***************************************************************************)
EXTENDS Integers, Sequences, FiniteSets, TLC

VARIABLES baseImage, editedImageUrl, prompt, isLoading, error, activeFilter,
          history, historyIndex, zoom, decodes, objectUrls, jobs, requests,
          imageData, isPanning, lastMousePosRef, listeners, gestures, part001

vars == <<baseImage, editedImageUrl, prompt, isLoading, error, activeFilter,
          history, historyIndex, zoom, decodes, objectUrls, jobs, requests,
          imageData, isPanning, lastMousePosRef, listeners, gestures, part001>>

\* The pointer state of the pan gesture, with the count of handled gestures.
pointer == <<isPanning, lastMousePosRef, listeners, gestures>>

\* ------------------------------------------------------------- bounds
\* Object URLs (uploads + accepted filter clicks) created in one run of Spec.
MaxUrls == 3
\* Object URLs created in one run of GenSpec.
MaxGenUrls == 2
\* Accepted Generate clicks in one run of GenSpec.
MaxJobs == 2
\* Runs of the posterize loop over one pixel buffer in one run of PosterizeSpec.
MaxPasses == 2
\* Object URLs the preview effect creates in one run of PreviewSpec.
MaxPreviewUrls == 3
\* Object URLs created in one run of ViewSpec.
MaxViewUrls == 2
\* Zoom-button clicks, wheel events and handled mouse moves in one run of ViewSpec.
MaxGestures == 2

\* ------------------------------------------------------------- values
\* The files the user picks from.  "notes.txt" is a file the browser cannot
\* decode as an image (the picker's accept="image/*" is only a hint): an
\* <img> given it fires `error`, never `load`.
Files == {"a.png", "b.png", "notes.txt"}

\* The files picked in GenSpec.
GenFiles == {"a.png", "notes.txt"}

Decodable(file) == file # "notes.txt"

\* React's null for the string-valued cell baseImage; the other nullable cells
\* (editedImageUrl, error) hold <<>> for null and a non-empty tuple otherwise.
NULL == "null"

\* The filter buttons the model clicks (three of the eleven of `filters`).
FilterNames == {"none", "grayscale", "sepia"}

\* Values typed into the prompt textarea, as character sequences.
PromptSamples == {<<>>, <<" ">>, <<" ", "a">>}

\* Values the zoom slider is dragged to, in tenths (10 = scale 1).
SliderSamples == {10, 25}

ZoomReset == [scale |-> 10, x |-> 0, y |-> 0]

\* String.prototype.trim on a character sequence.
RECURSIVE TrimLeft(_)
TrimLeft(s) == IF s # <<>> /\ Head(s) = " " THEN TrimLeft(Tail(s)) ELSE s

RECURSIVE TrimRight(_)
TrimRight(s) ==
    IF s # <<>> /\ s[Len(s)] = " " THEN TrimRight(SubSeq(s, 1, Len(s) - 1)) ELSE s

trim(s) == TrimRight(TrimLeft(s))

\* A plausible slip: the filter is drawn over the snapshot on display instead
\* of the raw upload, so on an already filtered entry the filters pile up
\* ("stacked" stands for any such pile).
toDataURLOverCurrent(file, filter) ==
    [pixels |-> file,
     drawnWith |-> IF /\ historyIndex >= 0 /\ historyIndex < Len(history)
                      /\ history[historyIndex + 1].filter # "none"
                   THEN "stacked" ELSE filter]

\* canvas.toDataURL() after drawing `file` through applyFilterToCanvas(filter):
\* the snapshot is determined by the decoded file and the filter drawn.
toDataURL(file, filter) == [pixels |-> file, drawnWith |-> filter]

\* Array.prototype.slice(0, end) on a 1-based sequence.
slice(arr, end) == SubSeq(arr, 1, IF end < Len(arr) THEN end ELSE Len(arr))

\* ------------------------------------------------------------- derived
\* history[historyIndex], as <<entry>>; <<>> (undefined) when out of range.
currentImageState ==
    IF historyIndex >= 0 /\ historyIndex < Len(history)
    THEN <<history[historyIndex + 1]>> ELSE <<>>

canUndo == historyIndex > 0

canRedo == historyIndex < Len(history) - 1

nUrls == Len(objectUrls)

\* ------------------------------------------------------------- initial state
\* The cells of the effect-based variant of the component (part_001) that its
\* filter preview involves, with the decodes its effect has pending and the
\* number of object URLs it has created.
InitialPart001 ==
    [originalImage |-> NULL, originalImageUrl |-> <<>>, activeFilter |-> "none",
     decodes |-> {}, nUrls |-> 0]

initialCells ==
    /\ baseImage = NULL
    /\ editedImageUrl = <<>>
    /\ prompt = <<>>
    /\ isLoading = FALSE
    /\ error = <<>>
    /\ activeFilter = "none"
    /\ history = <<>>
    /\ historyIndex = -1
    /\ zoom = ZoomReset
    /\ decodes = {}
    /\ objectUrls = <<>>
    /\ jobs = <<>>
    /\ requests = {}
    /\ isPanning = FALSE
    /\ lastMousePosRef = [x |-> 0, y |-> 0]
    /\ listeners = FALSE
    /\ gestures = 0
    /\ part001 = InitialPart001

\* No pixel buffer has been read from the canvas.
NoImageData == [drawn |-> <<>>, data |-> <<>>, passes |-> 0]

Init == initialCells /\ imageData = NoImageData

\* URL.createObjectURL: a fresh URL, live, its image not yet drawn.
createObjectURL(urls) == Append(urls, [drawn |-> FALSE, revoked |-> 0])

\* ------------------------------------------------------------- upload
\* A plausible slip: setEditedImageUrl(null) and setError(null) left out.
uploadKeepsResult(file) ==
    /\ baseImage' = file
    /\ zoom' = ZoomReset
    /\ objectUrls' = createObjectURL(objectUrls)
    /\ decodes' = decodes \cup
            {[src |-> nUrls + 1, kind |-> "upload", file |-> file, filter |-> "none",
              history |-> <<>>, historyIndex |-> -1]}
    /\ UNCHANGED <<editedImageUrl, error, prompt, isLoading, activeFilter, history,
                   historyIndex, jobs, requests, imageData, pointer, part001>>

\* handleImageChange with a chosen file: state reset and a decode started.
handleImageChange(file) ==
    /\ baseImage' = file
    /\ editedImageUrl' = <<>>
    /\ error' = <<>>
    /\ zoom' = ZoomReset
    /\ objectUrls' = createObjectURL(objectUrls)
    /\ decodes' = decodes \cup
            {[src |-> nUrls + 1, kind |-> "upload", file |-> file, filter |-> "none",
              history |-> <<>>, historyIndex |-> -1]}
    /\ UNCHANGED <<prompt, isLoading, activeFilter, history, historyIndex, jobs, requests,
                   imageData, pointer, part001>>

\* ctx.drawImage(img, ...) inside an onload: the image behind URL u is drawn.
drawImage(urls, u) == [urls EXCEPT ![u].drawn = TRUE]

\* URL.revokeObjectURL(img.src).
revokeObjectURL(urls, u) == [urls EXCEPT ![u].revoked = @ + 1]

\* img.onload of handleImageChange, for the pending decode d.
uploadOnload(d) ==
    /\ d \in decodes /\ d.kind = "upload" /\ Decodable(d.file)
    /\ decodes' = decodes \ {d}
    /\ history' = <<[imageUrl |-> toDataURL(d.file, "none"), filter |-> "none"]>>
    /\ historyIndex' = 0
    /\ activeFilter' = "none"
    /\ objectUrls' = revokeObjectURL(drawImage(objectUrls, d.src), d.src)
    /\ UNCHANGED <<baseImage, editedImageUrl, prompt, isLoading, error, zoom, jobs, requests,
                   imageData, pointer, part001>>

\* ------------------------------------------------------------- filters
\* A plausible slip in the onload: slice(0, historyIndex) drops the current entry.
newHistoryDropsCurrent(d) ==
    Append(slice(d.history, d.historyIndex),
           [imageUrl |-> toDataURL(d.file, d.filter), filter |-> d.filter])

\* The history the filter's onload installs: computed from the history and
\* index its closure captured at the click.
newHistory(d) ==
    Append(slice(d.history, d.historyIndex + 1),
           [imageUrl |-> toDataURL(d.file, d.filter), filter |-> d.filter])

\* A plausible slip in handleFilterClick: the active filter is not tested.
filterClickWithoutActiveCheck(filter) ==
    IF baseImage = NULL
    THEN UNCHANGED vars
    ELSE /\ activeFilter' = filter
         /\ zoom' = ZoomReset
         /\ objectUrls' = createObjectURL(objectUrls)
         /\ decodes' = decodes \cup
                {[src |-> nUrls + 1, kind |-> "filter", file |-> baseImage,
                  filter |-> filter, history |-> history, historyIndex |-> historyIndex]}
         /\ UNCHANGED <<baseImage, editedImageUrl, prompt, isLoading, error,
                        history, historyIndex, jobs, requests,
                        imageData, pointer, part001>>

\* handleFilterClick(filter): returns at once without an upload or on the
\* active filter; otherwise highlights the filter and starts a decode of
\* baseImage whose onload closes over this render's history and historyIndex.
handleFilterClick(filter) ==
    IF baseImage = NULL \/ activeFilter = filter
    THEN UNCHANGED vars
    ELSE /\ activeFilter' = filter
         /\ zoom' = ZoomReset
         /\ objectUrls' = createObjectURL(objectUrls)
         /\ decodes' = decodes \cup
                {[src |-> nUrls + 1, kind |-> "filter", file |-> baseImage,
                  filter |-> filter, history |-> history, historyIndex |-> historyIndex]}
         /\ UNCHANGED <<baseImage, editedImageUrl, prompt, isLoading, error,
                        history, historyIndex, jobs, requests,
                        imageData, pointer, part001>>

\* img.onload of handleFilterClick, for the pending decode d.
filterOnload(d) ==
    /\ d \in decodes /\ d.kind = "filter" /\ Decodable(d.file)
    /\ decodes' = decodes \ {d}
    /\ history' = newHistory(d)
    /\ historyIndex' = Len(newHistory(d)) - 1
    /\ objectUrls' = revokeObjectURL(drawImage(objectUrls, d.src), d.src)
    /\ UNCHANGED <<baseImage, editedImageUrl, prompt, isLoading, error, activeFilter,
                   zoom, jobs, requests, imageData, pointer, part001>>

\* The decode of an undecodable file ends in the image's `error` event, for
\* which neither handler registers a listener: the callback is dropped.
imgError(d) ==
    /\ d \in decodes /\ ~Decodable(d.file)
    /\ decodes' = decodes \ {d}
    /\ UNCHANGED <<baseImage, editedImageUrl, prompt, isLoading, error, activeFilter,
                   history, historyIndex, zoom, objectUrls, jobs, requests,
                   imageData, pointer, part001>>

\* ------------------------------------------------------------- undo / redo
\* The three cells undo and redo work on, as one value.
historyView ==
    [history |-> history, historyIndex |-> historyIndex, activeFilter |-> activeFilter]

\* What handleUndo does to those cells: newIndex = historyIndex - 1.
undo(v) ==
    IF v.historyIndex > 0
    THEN [v EXCEPT !.historyIndex = v.historyIndex - 1,
                   !.activeFilter = v.history[(v.historyIndex - 1) + 1].filter]
    ELSE v

\* What handleRedo does to those cells: newIndex = historyIndex + 1.
redo(v) ==
    IF v.historyIndex < Len(v.history) - 1
    THEN [v EXCEPT !.historyIndex = v.historyIndex + 1,
                   !.activeFilter = v.history[(v.historyIndex + 1) + 1].filter]
    ELSE v

\* A plausible slip in handleUndo: the guard tests the list, not the index.
undoToFirstUnguarded ==
    IF history # <<>>
    THEN /\ historyIndex' = IF historyIndex > 0 THEN historyIndex - 1 ELSE 0
         /\ activeFilter' = history[1].filter
         /\ zoom' = ZoomReset
         /\ UNCHANGED <<baseImage, editedImageUrl, prompt, isLoading, error, history,
                        decodes, objectUrls, jobs, requests,
                        imageData, pointer, part001>>
    ELSE UNCHANGED vars

handleUndo ==
    IF canUndo
    THEN /\ historyIndex' = undo(historyView).historyIndex
         /\ activeFilter' = undo(historyView).activeFilter
         /\ zoom' = ZoomReset
         /\ UNCHANGED <<baseImage, editedImageUrl, prompt, isLoading, error, history,
                        decodes, objectUrls, jobs, requests,
                        imageData, pointer, part001>>
    ELSE UNCHANGED vars

\* A plausible slip in handleRedo: setZoom left out.
redoKeepsZoom ==
    IF canRedo
    THEN /\ historyIndex' = redo(historyView).historyIndex
         /\ activeFilter' = redo(historyView).activeFilter
         /\ UNCHANGED <<baseImage, editedImageUrl, prompt, isLoading, error, history,
                        zoom, decodes, objectUrls, jobs, requests,
                        imageData, pointer, part001>>
    ELSE UNCHANGED vars

handleRedo ==
    IF canRedo
    THEN /\ historyIndex' = redo(historyView).historyIndex
         /\ activeFilter' = redo(historyView).activeFilter
         /\ zoom' = ZoomReset
         /\ UNCHANGED <<baseImage, editedImageUrl, prompt, isLoading, error, history,
                        decodes, objectUrls, jobs, requests,
                        imageData, pointer, part001>>
    ELSE UNCHANGED vars

\* ------------------------------------------------------------- reset, prompt, zoom
\* A plausible slip in handleReset: setHistoryIndex(-1) left out.
resetKeepsIndex ==
    /\ baseImage' = NULL
    /\ editedImageUrl' = <<>>
    /\ prompt' = <<>>
    /\ error' = <<>>
    /\ activeFilter' = "none"
    /\ history' = <<>>
    /\ zoom' = ZoomReset
    /\ UNCHANGED <<historyIndex, isLoading, decodes, objectUrls, jobs, requests,
                   imageData, pointer, part001>>

handleReset ==
    /\ baseImage' = NULL
    /\ editedImageUrl' = <<>>
    /\ prompt' = <<>>
    /\ error' = <<>>
    /\ activeFilter' = "none"
    /\ history' = <<>>
    /\ historyIndex' = -1
    /\ zoom' = ZoomReset
    /\ UNCHANGED <<isLoading, decodes, objectUrls, jobs, requests,
                   imageData, pointer, part001>>

\* The textarea's onChange (and the example-prompt buttons): setPrompt(value).
setPrompt(value) ==
    /\ prompt' = value
    /\ UNCHANGED <<baseImage, editedImageUrl, isLoading, error, activeFilter, history,
                   historyIndex, zoom, decodes, objectUrls, jobs, requests,
                   imageData, pointer, part001>>

\* A plausible slip in the clamp: Math.min(newScale, 10) left out.
clampFromBelowOnly(newScale) == IF newScale > 10 THEN newScale ELSE 10

\* Math.max(1, Math.min(newScale, 10)), in tenths.
clamp(newScale) ==
    LET lo == IF newScale < 100 THEN newScale ELSE 100
    IN  IF lo > 10 THEN lo ELSE 10

\* setZoomLevel(newScale): the clamped scale; scale 1 also clears the pan.
setZoomLevel(newScale) ==
    /\ zoom' = IF clamp(newScale) = 10 THEN ZoomReset
               ELSE [zoom EXCEPT !.scale = clamp(newScale)]
    /\ UNCHANGED <<baseImage, editedImageUrl, prompt, isLoading, error, activeFilter,
                   history, historyIndex, decodes, objectUrls, jobs, requests,
                   imageData, isPanning, lastMousePosRef, listeners, part001>>

\* The zoom slider, rendered with either displayed image.
handleScaleChange(newScale) ==
    /\ currentImageState # <<>> \/ (~isLoading /\ editedImageUrl # <<>>)
    /\ setZoomLevel(newScale)
    /\ UNCHANGED gestures

\* ------------------------------------------------------------- zoom and pan
\* zoom.x and zoom.y are held in 1/PanUnit of a pixel (zoom.scale in tenths).
PanUnit == 1000

\* onZoom(-0.2) and onZoom(0.2) of the two zoom buttons, in tenths.
ZoomDeltas == {-2, 2}

\* e.deltaY of the wheel events: a long scroll up (zoom in by 10) and a fast
\* scroll down (zoom out by 1.5).
WheelSamples == {-5000, 750}

\* The filter buttons clicked in ViewSpec.
ViewFilters == {"none", "grayscale"}

\* The file picked in ViewSpec.
ViewFiles == {"a.png"}

\* Pointer positions (clientX, clientY).
PointerSamples == {[x |-> 0, y |-> 0], [x |-> 6, y |-> -3]}

\* Mouse-down events: on a displayed <img>, or elsewhere in the image box.
MouseEvents ==
    {[target |-> t, clientX |-> pos.x, clientY |-> pos.y] :
        t \in {"img", "div"}, pos \in PointerSamples}

\* An <img> with the zoom controls is rendered: the current snapshot, or the
\* edited image when no request is loading.
imageRendered == currentImageState # <<>> \/ (~isLoading /\ editedImageUrl # <<>>)

\* handleZoomButtons(delta): setZoomLevel(zoom.scale + delta).
handleZoomButtons(delta) ==
    /\ imageRendered
    /\ setZoomLevel(zoom.scale + delta)
    /\ gestures' = gestures + 1

\* zoomAmount = -e.deltaY * 0.002, in tenths (exact for the deltaY sampled).
zoomAmount(deltaY) == (-deltaY) \div 50

\* handleWheel, bound to both image boxes whether or not an image is shown.
handleWheel(deltaY) ==
    /\ setZoomLevel(zoom.scale + zoomAmount(deltaY))
    /\ gestures' = gestures + 1

\* onReset of ZoomControls: setZoom({ scale: 1, x: 0, y: 0 }).
onReset ==
    /\ imageRendered
    /\ zoom' = ZoomReset
    /\ UNCHANGED <<baseImage, editedImageUrl, prompt, isLoading, error, activeFilter,
                   history, historyIndex, decodes, objectUrls, jobs, requests,
                   imageData, pointer, part001>>

\* A plausible slip in handleMouseDown: the scale is not tested.
mouseDownAtAnyScale(e) ==
    IF e.target # "img"
    THEN UNCHANGED vars
    ELSE /\ lastMousePosRef' = [x |-> e.clientX, y |-> e.clientY]
         /\ isPanning' = TRUE
         /\ listeners' = TRUE
         /\ UNCHANGED <<baseImage, editedImageUrl, prompt, isLoading, error, activeFilter,
                        history, historyIndex, zoom, decodes, objectUrls, jobs, requests,
                        imageData, gestures, part001>>

\* handleMouseDown(e): returns at once at scale 1 or off the image; otherwise
\* records the position, sets isPanning and registers handleMouseMove and
\* handleMouseUp on the document.
handleMouseDown(e) ==
    IF zoom.scale <= 10 \/ e.target # "img"
    THEN UNCHANGED vars
    ELSE /\ lastMousePosRef' = [x |-> e.clientX, y |-> e.clientY]
         /\ isPanning' = TRUE
         /\ listeners' = TRUE
         /\ UNCHANGED <<baseImage, editedImageUrl, prompt, isLoading, error, activeFilter,
                        history, historyIndex, zoom, decodes, objectUrls, jobs, requests,
                        imageData, gestures, part001>>

\* a / b rounded towards zero (b > 0).
truncDiv(a, b) == IF a >= 0 THEN a \div b ELSE -((-a) \div b)

\* handleMouseMove(me): setZoom(prev => ({...prev, x: prev.x + dx / prev.scale,
\* y: prev.y + dy / prev.scale})) and the new last position.
handleMouseMove(me) ==
    /\ zoom' = [zoom EXCEPT
                  !.x = @ + truncDiv((me.x - lastMousePosRef.x) * 10 * PanUnit, zoom.scale),
                  !.y = @ + truncDiv((me.y - lastMousePosRef.y) * 10 * PanUnit, zoom.scale)]
    /\ lastMousePosRef' = me
    /\ gestures' = gestures + 1
    /\ UNCHANGED <<baseImage, editedImageUrl, prompt, isLoading, error, activeFilter,
                   history, historyIndex, decodes, objectUrls, jobs, requests,
                   imageData, isPanning, listeners, part001>>

\* A mousemove event on the document: handled only while the listener that
\* handleMouseDown added is registered.
documentMouseMove(me) == IF listeners THEN handleMouseMove(me) ELSE UNCHANGED vars

\* handleMouseUp: both listeners removed, isPanning false.
handleMouseUp ==
    /\ listeners' = FALSE
    /\ isPanning' = FALSE
    /\ UNCHANGED <<baseImage, editedImageUrl, prompt, isLoading, error, activeFilter,
                   history, historyIndex, zoom, decodes, objectUrls, jobs, requests,
                   imageData, lastMousePosRef, gestures, part001>>

\* A mouseup event on the document.
documentMouseUp == IF listeners THEN handleMouseUp ELSE UNCHANGED vars

\* ------------------------------------------------------------- generate
\* A plausible slip in the button: `disabled` without the isLoading test.
generateEnabledWhileLoading == baseImage # NULL /\ trim(prompt) # <<>>

\* The Generate button's `disabled` attribute, negated.
generateEnabled == ~isLoading /\ baseImage # NULL /\ trim(prompt) # <<>>

InvalidInput == <<"Please upload an image and enter a prompt.">>

NoImageGenerated == <<"No image was generated. Please try a different prompt.">>

FailedPrefix == "Failed to generate image. "

\* What a rejected await throws: an Error with a message, or another value.
Thrown == {[isError |-> TRUE, message |-> "Failed to fetch"],
           [isError |-> FALSE, message |-> ""]}

\* The TypeError of response.candidates[0] on a response without candidates.
NoCandidates == [isError |-> TRUE, message |-> "Cannot read properties of undefined"]

\* The catch block's message.
errorMessage(err) ==
    IF err.isError THEN err.message ELSE "An unexpected error occurred."

\* dataUrlToFile(dataUrl, filename): a File of the snapshot's bytes.
dataUrlToFile(dataUrl, filename) == [name |-> filename, bytes |-> dataUrl]

\* fileToGenerativePart(file): the base64 payload of the file as inline data.
fileToGenerativePart(file) == [inlineData |-> <<[data |-> file.bytes]>>]

textPart(text) == [text |-> text, inlineData |-> <<>>]

\* The parts of one outbound generateContent call.
requestParts(job) ==
    <<fileToGenerativePart(dataUrlToFile(job.imageUrl[1], job.name)), textPart(job.prompt)>>

\* An image part the service may answer with: variant k of an edit of `image`.
generatedPart(image, k) == [inlineData |-> <<[data |-> [editOf |-> image, variant |-> k]]>>]

\* The part lists the service answers with, for a request carrying `image`.
ResponseSamples(image) ==
    { <<>>,
      <<textPart(<<"ok">>)>>,
      <<generatedPart(image, 1)>>,
      <<generatedPart(image, 1), generatedPart(image, 2)>>,
      <<generatedPart(image, 1), textPart(<<"ok">>)>> }

\* A plausible slip in the scan: it runs from the front and takes the first
\* part with inline data among parts[1..i].
scanPartsFromFront(parts, i) ==
    IF \E k \in 1..i : parts[k].inlineData # <<>>
    THEN CHOOSE k \in 1..i :
            /\ parts[k].inlineData # <<>>
            /\ \A m \in 1..(k - 1) : parts[m].inlineData = <<>>
    ELSE 0

\* for (i = parts.length - 1; i >= 0; i--) if (parts[i].inlineData) ... break:
\* the 1-based position of the part taken, 0 when the loop finds none.
RECURSIVE scanParts(_, _)
scanParts(parts, i) ==
    IF i < 1 THEN 0
    ELSE IF parts[i].inlineData # <<>> THEN i
    ELSE scanParts(parts, i - 1)

\* `data:${mimeType};base64,${data}` of an inline part.
inlineToUrl(part) == [dataUrl |-> part.inlineData[1].data]

nJobs == Len(jobs)

\* A plausible slip in handleGenerateClick: the raw upload is sent, not the
\* current (filtered) snapshot.
generateFromRawUpload ==
    IF baseImage = NULL \/ currentImageState = <<>> \/ trim(prompt) = <<>>
    THEN /\ error' = InvalidInput
         /\ UNCHANGED <<baseImage, editedImageUrl, prompt, isLoading, activeFilter, history,
                        historyIndex, zoom, decodes, objectUrls, jobs, requests,
                        imageData, pointer, part001>>
    ELSE /\ isLoading' = TRUE
         /\ error' = <<>>
         /\ editedImageUrl' = <<>>
         /\ jobs' = Append(jobs, [pc |-> "toFile", sent |-> 0,
                                  imageUrl |-> <<toDataURL(baseImage, "none")>>,
                                  name |-> baseImage, prompt |-> prompt])
         /\ UNCHANGED <<baseImage, prompt, activeFilter, history, historyIndex, zoom,
                        decodes, objectUrls, requests, imageData, pointer, part001>>

\* A plausible slip in the guard (the one of the earlier variants of the
\* component): the current history entry is not tested.
generateWithoutEntryCheck ==
    IF baseImage = NULL \/ trim(prompt) = <<>>
    THEN /\ error' = InvalidInput
         /\ UNCHANGED <<baseImage, editedImageUrl, prompt, isLoading, activeFilter, history,
                        historyIndex, zoom, decodes, objectUrls, jobs, requests,
                        imageData, pointer, part001>>
    ELSE /\ isLoading' = TRUE
         /\ error' = <<>>
         /\ editedImageUrl' = <<>>
         /\ jobs' = Append(jobs, [pc |-> "toFile", sent |-> 0,
                                  imageUrl |-> IF currentImageState = <<>> THEN <<>>
                                               ELSE <<currentImageState[1].imageUrl>>,
                                  name |-> baseImage, prompt |-> prompt])
         /\ UNCHANGED <<baseImage, prompt, activeFilter, history, historyIndex, zoom,
                        decodes, objectUrls, requests, imageData, pointer, part001>>

\* A plausible slip: setEditedImageUrl(null) left out of the accepted click.
generateKeepsEdited ==
    IF baseImage = NULL \/ currentImageState = <<>> \/ trim(prompt) = <<>>
    THEN /\ error' = InvalidInput
         /\ UNCHANGED <<baseImage, editedImageUrl, prompt, isLoading, activeFilter, history,
                        historyIndex, zoom, decodes, objectUrls, jobs, requests,
                        imageData, pointer, part001>>
    ELSE /\ isLoading' = TRUE
         /\ error' = <<>>
         /\ jobs' = Append(jobs, [pc |-> "toFile", sent |-> 0,
                                  imageUrl |-> <<currentImageState[1].imageUrl>>,
                                  name |-> baseImage, prompt |-> prompt])
         /\ UNCHANGED <<baseImage, editedImageUrl, prompt, activeFilter, history,
                        historyIndex, zoom, decodes, objectUrls, requests,
                        imageData, pointer, part001>>

\* A plausible slip: setError(null) left out of the accepted click.
generateKeepsError ==
    IF baseImage = NULL \/ currentImageState = <<>> \/ trim(prompt) = <<>>
    THEN /\ error' = InvalidInput
         /\ UNCHANGED <<baseImage, editedImageUrl, prompt, isLoading, activeFilter, history,
                        historyIndex, zoom, decodes, objectUrls, jobs, requests,
                        imageData, pointer, part001>>
    ELSE /\ isLoading' = TRUE
         /\ editedImageUrl' = <<>>
         /\ jobs' = Append(jobs, [pc |-> "toFile", sent |-> 0,
                                  imageUrl |-> <<currentImageState[1].imageUrl>>,
                                  name |-> baseImage, prompt |-> prompt])
         /\ UNCHANGED <<baseImage, error, prompt, activeFilter, history, historyIndex, zoom,
                        decodes, objectUrls, requests, imageData, pointer, part001>>

\* handleGenerateClick up to its first await: the input guard, then the
\* loading state and the start of dataUrlToFile on this render's snapshot.
handleGenerateClick ==
    IF baseImage = NULL \/ currentImageState = <<>> \/ trim(prompt) = <<>>
    THEN /\ error' = InvalidInput
         /\ UNCHANGED <<baseImage, editedImageUrl, prompt, isLoading, activeFilter, history,
                        historyIndex, zoom, decodes, objectUrls, jobs, requests,
                        imageData, pointer, part001>>
    ELSE /\ isLoading' = TRUE
         /\ error' = <<>>
         /\ editedImageUrl' = <<>>
         /\ jobs' = Append(jobs, [pc |-> "toFile", sent |-> 0,
                                  imageUrl |-> <<currentImageState[1].imageUrl>>,
                                  name |-> baseImage, prompt |-> prompt])
         /\ UNCHANGED <<baseImage, prompt, activeFilter, history, historyIndex, zoom,
                        decodes, objectUrls, requests, imageData, pointer, part001>>

\* The async function of job j has returned: its closure is garbage; the
\* record keeps only how many calls the job issued.
returned(job) ==
    [pc |-> "done", sent |-> job.sent, imageUrl |-> <<>>, name |-> NULL, prompt |-> <<>>]

\* The outbound calls of job j still awaiting their answer.
inFlight(j) == {r \in requests : r.job = j}

\* A plausible retry policy the code does not have: a failed call is sent again.
catchRetriesCall(j, err) ==
    IF jobs[j].pc = "call"
    THEN /\ jobs' = [jobs EXCEPT ![j].sent = @ + 1]
         /\ UNCHANGED <<baseImage, editedImageUrl, prompt, isLoading, error, activeFilter,
                        history, historyIndex, zoom, decodes, objectUrls, requests,
                        imageData, pointer, part001>>
    ELSE /\ error' = <<FailedPrefix, errorMessage(err)>>
         /\ isLoading' = FALSE
         /\ jobs' = [jobs EXCEPT ![j] = returned(jobs[j])]
         /\ requests' = requests \ inFlight(j)
         /\ UNCHANGED <<baseImage, editedImageUrl, prompt, activeFilter, history,
                        historyIndex, zoom, decodes, objectUrls,
                        imageData, pointer, part001>>

\* catch (err) { setError(...) } finally { setIsLoading(false) } of job j.
catchFinally(j, err) ==
    /\ error' = <<FailedPrefix, errorMessage(err)>>
    /\ isLoading' = FALSE
    /\ jobs' = [jobs EXCEPT ![j] = returned(jobs[j])]
    /\ requests' = requests \ inFlight(j)
    /\ UNCHANGED <<baseImage, editedImageUrl, prompt, activeFilter, history, historyIndex,
                   zoom, decodes, objectUrls, imageData, pointer, part001>>

\* await dataUrlToFile(...) resolves: the job goes on to read the file.
toFileResolved(j) ==
    /\ j \in DOMAIN jobs /\ jobs[j].pc = "toFile"
    /\ jobs' = [jobs EXCEPT ![j].pc = "readFile"]
    /\ UNCHANGED <<baseImage, editedImageUrl, prompt, isLoading, error, activeFilter,
                   history, historyIndex, zoom, decodes, objectUrls, requests,
                   imageData, pointer, part001>>

\* await dataUrlToFile(...) rejects (fetch of the data URL fails).
toFileRejected(j, err) ==
    /\ j \in DOMAIN jobs /\ jobs[j].pc = "toFile"
    /\ catchFinally(j, err)

\* reader.onloadend with a result: the promise resolves and the job issues
\* its generateContent call.
readResolved(j) ==
    /\ j \in DOMAIN jobs /\ jobs[j].pc = "readFile"
    /\ jobs' = [jobs EXCEPT ![j].pc = "call", ![j].sent = @ + 1]
    /\ requests' = requests \cup {[job |-> j, parts |-> requestParts(jobs[j])]}
    /\ UNCHANGED <<baseImage, editedImageUrl, prompt, isLoading, error, activeFilter,
                   history, historyIndex, zoom, decodes, objectUrls,
                   imageData, pointer, part001>>

\* reader.onloadend after a failed read: reader.result is null, so
\* (reader.result as string).split throws inside the event listener; resolve
\* is never called and the promise has no reject path, so the await never
\* returns and neither catch nor finally runs.
readFailed(j) ==
    /\ j \in DOMAIN jobs /\ jobs[j].pc = "readFile"
    /\ jobs' = [jobs EXCEPT ![j].pc = "hung"]
    /\ UNCHANGED <<baseImage, editedImageUrl, prompt, isLoading, error, activeFilter,
                   history, historyIndex, zoom, decodes, objectUrls, requests,
                   imageData, pointer, part001>>

\* await ai.models.generateContent(...) rejects.
callRejected(j, err) ==
    /\ j \in DOMAIN jobs /\ jobs[j].pc = "call"
    /\ catchFinally(j, err)

\* The call resolves with a response that has no candidates.
callNoCandidates(j) ==
    /\ j \in DOMAIN jobs /\ jobs[j].pc = "call"
    /\ catchFinally(j, NoCandidates)

\* A plausible feature the code does not have: the generated image is pushed
\* onto the history as a new entry.
callResolvedPushesHistory(j, parts) ==
    /\ j \in DOMAIN jobs /\ jobs[j].pc = "call"
    /\ IF scanParts(parts, Len(parts)) # 0
       THEN /\ editedImageUrl' = <<inlineToUrl(parts[scanParts(parts, Len(parts))])>>
            /\ zoom' = ZoomReset
            /\ error' = error
            /\ history' = Append(history,
                   [imageUrl |-> inlineToUrl(parts[scanParts(parts, Len(parts))]),
                    filter |-> "none"])
            /\ historyIndex' = Len(history)
       ELSE /\ error' = NoImageGenerated
            /\ UNCHANGED <<editedImageUrl, zoom, history, historyIndex>>
    /\ isLoading' = FALSE
    /\ jobs' = [jobs EXCEPT ![j] = returned(jobs[j])]
    /\ requests' = requests \ inFlight(j)
    /\ UNCHANGED <<baseImage, prompt, activeFilter, decodes, objectUrls,
                   imageData, pointer, part001>>

\* The call resolves with candidates[0].content.parts = parts.
callResolved(j, parts) ==
    /\ j \in DOMAIN jobs /\ jobs[j].pc = "call"
    /\ IF scanParts(parts, Len(parts)) # 0
       THEN /\ editedImageUrl' = <<inlineToUrl(parts[scanParts(parts, Len(parts))])>>
            /\ zoom' = ZoomReset
            /\ error' = error
       ELSE /\ error' = NoImageGenerated
            /\ UNCHANGED <<editedImageUrl, zoom>>
    /\ isLoading' = FALSE
    /\ jobs' = [jobs EXCEPT ![j] = returned(jobs[j])]
    /\ requests' = requests \ inFlight(j)
    /\ UNCHANGED <<baseImage, prompt, activeFilter, history, historyIndex, decodes,
                   objectUrls, imageData, pointer, part001>>

\* ------------------------------------------------------------- posterize
\* const levels = 4; const step = 255 / (levels - 1): 85, exactly.
levels == 4
step == 255 \div (levels - 1)

\* Math.round(num / den) for num >= 0, den > 0: the nearest integer, a half
\* rounded up.
MathRound(num, den) == (2 * num + den) \div (2 * den)

\* A store into a Uint8ClampedArray: integers are clamped to 0..255.
toUint8Clamped(x) == IF x < 0 THEN 0 ELSE IF x > 255 THEN 255 ELSE x

\* A plausible slip: Math.floor in place of Math.round.
quantiseFloor(v) == toUint8Clamped((v \div step) * step)

\* data[i] = Math.round(data[i] / step) * step.
quantise(v) == toUint8Clamped(MathRound(v, step) * step)

\* for (let i = 0; i < data.length; i += 4) { data[i], data[i + 1], data[i + 2]
\* are quantised }: the loop from index i on (i is the source's 0-based index;
\* data[i + 3], the alpha byte, is never written).
RECURSIVE posterize(_, _)
posterize(data, i) ==
    IF i < Len(data)
    THEN posterize([data EXCEPT ![i + 1] = quantise(@),
                                ![i + 2] = quantise(@),
                                ![i + 3] = quantise(@)], i + 4)
    ELSE data

\* The bytes a channel can hold, and the green / alpha bytes the buffers are
\* built from.
Bytes == 0..255
ByteSamples == {0, 127, 255}

\* ctx.getImageData(0, 0, width, height).data for a drawn image of two
\* pixels, RGBA each: between them the red, green and blue bytes take every
\* value of Bytes, the alpha bytes transparent, translucent and opaque values.
PixelBuffers ==
    {<<v, w, 255 - v, a, w, v, (v + 128) % 256, 255 - a>> :
        v \in Bytes, w \in ByteSamples, a \in ByteSamples}

\* The posterize branch of applyFilterToCanvas, run on the buffer once more.
\* (The function is a module-level one; no cell of the component is involved.)
posterizePass ==
    /\ imageData.passes < MaxPasses
    /\ imageData' = [imageData EXCEPT !.data = posterize(@, 0), !.passes = @ + 1]
    /\ UNCHANGED <<baseImage, editedImageUrl, prompt, isLoading, error, activeFilter,
                   history, historyIndex, zoom, decodes, objectUrls, jobs, requests,
                   pointer, part001>>

\* ------------------------------------------------------------- part_001
\* The effect of part_001 (dependencies originalImage, activeFilter), run on
\* the cells p of the render that changed one of them: without an image the
\* preview is cleared; otherwise a decode of a fresh object URL of the image is
\* started, its onload closing over this render's image and filter.  The
\* effect returns no cleanup, so earlier decodes stay pending.
useEffect001(p) ==
    IF p.originalImage = NULL
    THEN [p EXCEPT !.originalImageUrl = <<>>]
    ELSE [p EXCEPT !.nUrls = @ + 1,
                   !.decodes = @ \cup {[src |-> p.nUrls + 1, file |-> p.originalImage,
                                         filter |-> p.activeFilter]}]

\* The cells of the index.tsx component and its pointer: no step of part_001
\* involves them.
indexCells ==
    <<baseImage, editedImageUrl, prompt, isLoading, error, activeFilter, history,
      historyIndex, zoom, decodes, objectUrls, jobs, requests, imageData, pointer>>

\* handleImageChange of part_001 with a chosen file, and the effect that the
\* new originalImage triggers.
handleImageChange001(file) ==
    /\ part001' = useEffect001([part001 EXCEPT !.originalImage = file,
                                                !.activeFilter = "none"])
    /\ UNCHANGED indexCells

\* onClick of a filter button of part_001 (disabled without an image):
\* setActiveFilter(filter); the effect runs when the filter changed.
setActiveFilter001(filter) ==
    /\ part001.originalImage # NULL
    /\ part001' = IF filter = part001.activeFilter THEN part001
                  ELSE useEffect001([part001 EXCEPT !.activeFilter = filter])
    /\ UNCHANGED indexCells

\* handleReset of part_001, and the effect (which finds no image).
handleReset001 ==
    /\ part001' = useEffect001([part001 EXCEPT !.originalImage = NULL,
                                                !.originalImageUrl = <<>>,
                                                !.activeFilter = "none"])
    /\ UNCHANGED indexCells

\* img.onload of the effect, for its pending decode d: the preview becomes the
\* snapshot of the closure's image drawn with the closure's filter.
effectOnload001(d) ==
    /\ d \in part001.decodes /\ Decodable(d.file)
    /\ part001' = [part001 EXCEPT !.originalImageUrl = <<toDataURL(d.file, d.filter)>>,
                                  !.decodes = @ \ {d}]
    /\ UNCHANGED indexCells

\* ------------------------------------------------------------- specifications
\* The steps of the editor proper: uploads, filters, their decode callbacks,
\* undo / redo, Reset and the zoom slider.
EditNext(maxUrls, files) ==
    \/ nUrls < maxUrls /\ \E file \in files : handleImageChange(file)
    \/ \E d \in decodes : uploadOnload(d)
    \/ nUrls < maxUrls /\ \E filter \in FilterNames : handleFilterClick(filter)
    \/ \E d \in decodes : filterOnload(d)
    \/ \E d \in decodes : imgError(d)
    \/ handleUndo
    \/ handleRedo
    \/ handleReset
    \/ \E newScale \in SliderSamples : handleScaleChange(newScale)

\* The steps of the prompt and of the Generate jobs.
JobNext ==
    \/ \E value \in PromptSamples : setPrompt(value)
    \/ generateEnabled /\ nJobs < MaxJobs /\ handleGenerateClick
    \/ \E j \in DOMAIN jobs : toFileResolved(j)
    \/ \E j \in DOMAIN jobs, err \in Thrown : toFileRejected(j, err)
    \/ \E j \in DOMAIN jobs : readResolved(j)
    \/ \E j \in DOMAIN jobs : readFailed(j)
    \/ \E j \in DOMAIN jobs, err \in Thrown : callRejected(j, err)
    \/ \E j \in DOMAIN jobs : callNoCandidates(j)
    \/ \E j \in DOMAIN jobs : \E parts \in ResponseSamples(jobs[j].imageUrl) :
            callResolved(j, parts)

\* The editor without Generate.  No step of JobNext reads or writes history,
\* historyIndex, activeFilter, baseImage, decodes or objectUrls apart from
\* reading the snapshot a job starts from, so the history and object-URL
\* properties are decided here, at a larger bound on uploads and filters.
Next == EditNext(MaxUrls, Files)

Spec == Init /\ [][Next]_vars

\* The whole component.
GenNext == EditNext(MaxGenUrls, GenFiles) \/ JobNext

GenSpec == Init /\ [][GenNext]_vars

\* Uploads of decodable files, filter clicks and the load callbacks of their
\* decodes, in every order: the steps of the editor that write history.
DecodeRaceNext ==
    \/ nUrls < MaxUrls /\ \E file \in {f \in Files : Decodable(f)} : handleImageChange(file)
    \/ \E d \in decodes : uploadOnload(d)
    \/ nUrls < MaxUrls /\ \E filter \in FilterNames : handleFilterClick(filter)
    \/ \E d \in decodes : filterOnload(d)

DecodeRaceSpec == Init /\ [][DecodeRaceNext]_vars

\* One upload, decoded, and then filter clicks on it (with the zoom slider
\* moved at will): the runs in which filters are applied to one uploaded
\* image with no undo, redo, upload or Reset in between.
FilterPairNext ==
    \/ nUrls = 0 /\ \E file \in {f \in Files : Decodable(f)} : handleImageChange(file)
    \/ \E d \in decodes : uploadOnload(d)
    \/ /\ nUrls < MaxUrls /\ history # <<>>
       /\ \E filter \in FilterNames : handleFilterClick(filter)
    \/ \E d \in decodes : filterOnload(d)
    \/ \E newScale \in SliderSamples : handleScaleChange(newScale)

FilterPairSpec == Init /\ [][FilterPairNext]_vars

\* The editor with its view controls: zoom buttons, slider, wheel, zoom reset
\* and the pan gesture, beside the editor's steps that reset the view (upload,
\* filter, undo / redo, Reset).  One mouse button: a mouse down arrives only
\* while none is held.
ViewNext ==
    \/ nUrls < MaxViewUrls /\ \E file \in ViewFiles : handleImageChange(file)
    \/ \E d \in decodes : uploadOnload(d)
    \/ nUrls < MaxViewUrls /\ \E filter \in ViewFilters : handleFilterClick(filter)
    \/ \E d \in decodes : filterOnload(d)
    \/ handleUndo
    \/ handleRedo
    \/ handleReset
    \/ \E newScale \in SliderSamples : handleScaleChange(newScale)
    \/ gestures < MaxGestures /\ \E delta \in ZoomDeltas : handleZoomButtons(delta)
    \/ gestures < MaxGestures /\ \E deltaY \in WheelSamples : handleWheel(deltaY)
    \/ onReset
    \/ /\ ~listeners
       /\ \E e \in MouseEvents : (e.target = "img" => imageRendered) /\ handleMouseDown(e)
    \/ gestures < MaxGestures /\ \E me \in PointerSamples : documentMouseMove(me)
    \/ documentMouseUp

ViewSpec == Init /\ [][ViewNext]_vars

\* The filter preview of part_001: uploads of decodable files, filter clicks,
\* Reset and the load callbacks of the effect's decodes, in every order.
PreviewNext ==
    \/ /\ part001.nUrls < MaxPreviewUrls
       /\ \E file \in {f \in Files : Decodable(f)} : handleImageChange001(file)
    \/ /\ part001.nUrls < MaxPreviewUrls
       /\ \E filter \in FilterNames : setActiveFilter001(filter)
    \/ handleReset001
    \/ \E d \in part001.decodes : effectOnload001(d)

PreviewSpec == Init /\ [][PreviewNext]_vars

\* The posterize loop as a function of the pixel buffer: every buffer of
\* PixelBuffers, posterized and posterized again.
PosterizeInit ==
    /\ initialCells
    /\ \E buffer \in PixelBuffers : imageData = [drawn |-> buffer, data |-> buffer, passes |-> 0]

PosterizeNext == posterizePass

PosterizeSpec == PosterizeInit /\ [][PosterizeNext]_vars

\* Every pending image decode eventually fires `load` or `error`, and every
\* await of a Generate job eventually resolves or rejects: the browser's event
\* loop runs each completed native operation's callback.
decodeSettles == \E d \in decodes : uploadOnload(d) \/ filterOnload(d) \/ imgError(d)

jobSettles ==
    \E j \in DOMAIN jobs :
        \/ toFileResolved(j) \/ readResolved(j) \/ readFailed(j) \/ callNoCandidates(j)
        \/ \E err \in Thrown : toFileRejected(j, err) \/ callRejected(j, err)
        \/ \E parts \in ResponseSamples(jobs[j].imageUrl) : callResolved(j, parts)

FairSpec == Spec /\ WF_vars(decodeSettles)

FairGenSpec == GenSpec /\ WF_vars(decodeSettles) /\ WF_vars(jobSettles)

\* ------------------------------------------------------------- properties
\* C1: in every reachable state the history pointer is consistent with the
\* history list: the list is empty and historyIndex = -1, or
\* 0 <= historyIndex < history.length.
C1_PointerConsistent ==
    \/ history = <<>> /\ historyIndex = -1
    \/ 0 <= historyIndex /\ historyIndex < Len(history)

\* A three-entry history with the pointer moved back into the middle.
C1_Witness == Len(history) = 3 /\ historyIndex = 1

\* The cells Undo and Redo must never touch.
undoRedoFrame ==
    UNCHANGED <<history, baseImage, prompt, editedImageUrl, error, isLoading,
                decodes, objectUrls, jobs, requests>>

\* C2: a step of Undo with historyIndex > 0 moves the pointer down by one and
\* sets activeFilter to that entry's filter; a step of Redo with
\* historyIndex < history.length - 1 moves it up by one likewise; neither
\* changes history, baseImage, prompt, editedImageUrl or error; at the
\* respective bound (or on an empty history) the step changes nothing.
C2_UndoRedoMovePointerOnly ==
    [][ /\ handleUndo =>
            IF historyIndex > 0
            THEN /\ historyIndex' = historyIndex - 1
                 /\ activeFilter' = history[historyIndex' + 1].filter
                 /\ undoRedoFrame
            ELSE UNCHANGED vars
        /\ handleRedo =>
            IF historyIndex < Len(history) - 1
            THEN /\ historyIndex' = historyIndex + 1
                 /\ activeFilter' = history[historyIndex' + 1].filter
                 /\ undoRedoFrame
            ELSE UNCHANGED vars ]_vars

\* Redo is possible (an Undo has acted) while an edited image, a prompt and a
\* zoomed view are in place.
C2_Witness ==
    canRedo /\ editedImageUrl # <<>> /\ prompt # <<>>

\* C3: from any state with canUndo, Undo followed immediately by Redo restores
\* historyIndex, activeFilter and history; from any state with canRedo, Redo
\* followed immediately by Undo restores historyIndex and history.
C3_UndoRedoInverse ==
    /\ canUndo => redo(undo(historyView)) = historyView
    /\ canRedo => /\ undo(redo(historyView)).historyIndex = historyIndex
                  /\ undo(redo(historyView)).history = history

\* C4: when a filter's decode callback runs, the new history is entries
\* 0..i of the history seen at the click (i = historyIndex at the click)
\* followed by one new entry carrying the clicked filter, historyIndex points
\* at that last entry and Redo is not possible; and the history and index the
\* callback works from are those of the state in which the filter was clicked.
C4_FilterPushesOnClickedPrefix ==
    [][ /\ \A d \in decodes \ decodes' :
              (d.kind = "filter" /\ Decodable(d.file)) =>
                 /\ Len(history') = d.historyIndex + 2
                 /\ \A k \in 1..(d.historyIndex + 1) : history'[k] = d.history[k]
                 /\ history'[Len(history')].filter = d.filter
                 /\ historyIndex' = Len(history') - 1
                 /\ ~canRedo'
        /\ \A d \in decodes' \ decodes :
              d.kind = "filter" =>
                 /\ d.history = history
                 /\ d.historyIndex = historyIndex
                 /\ d.filter = activeFilter' ]_vars

\* Three decodes have completed and the history holds two entries: a filter
\* was applied on top of an earlier position and replaced what followed it.
C4_Witness ==
    /\ Len(history) = 2 /\ historyIndex = 1 /\ history[2].filter # "none"
    /\ nUrls = 3 /\ decodes = {}
    /\ \A u \in DOMAIN objectUrls : objectUrls[u].revoked = 1

\* The Generate jobs whose async function has not returned.
running == {j \in DOMAIN jobs : jobs[j].pc \in {"toFile", "readFile", "call", "hung"}}

\* C5: an accepted Generate captures the snapshot of the history entry current
\* at the click and the prompt as it is at the click, and the call the job
\* later issues carries exactly two parts: that snapshot as inline data and
\* that prompt as text.
C5_RequestCarriesClickSnapshotAndPrompt ==
    [][ /\ (~isLoading /\ isLoading') =>
              /\ Len(jobs') = Len(jobs) + 1
              /\ jobs'[Len(jobs')].imageUrl = <<history[historyIndex + 1].imageUrl>>
              /\ jobs'[Len(jobs')].prompt = prompt
        /\ \A r \in requests' \ requests :
              /\ Len(r.parts) = 2
              /\ r.parts[1].inlineData = <<[data |-> jobs[r.job].imageUrl[1]]>>
              /\ r.parts[2].text = jobs[r.job].prompt
              /\ r.parts[2].inlineData = <<>> ]_vars

\* A call in flight carries a filtered snapshot and a prompt that is no longer
\* the one in the textarea.
C5_Witness ==
    \E r \in requests :
        /\ r.parts[1].inlineData[1].data.drawnWith = "grayscale"
        /\ r.parts[2].text # prompt

\* C6 as stated: every accepted Generate click issues exactly one outbound
\* request, so a returned job has sent exactly one.
C6_ExactlyOneRequestPerClick ==
    \A j \in DOMAIN jobs : jobs[j].pc = "done" => jobs[j].sent = 1

\* C6 as amended: every accepted Generate click issues at most one outbound
\* request (one once its call is made, none while or after a step before the
\* call fails), and no step re-issues a request of a job that has made its
\* call or has returned.
C6_AtMostOneRequestNoRetry ==
    /\ [](\A j \in DOMAIN jobs :
            /\ jobs[j].sent <= 1
            /\ Cardinality(inFlight(j)) <= jobs[j].sent
            /\ jobs[j].pc = "call" => jobs[j].sent = 1 /\ Cardinality(inFlight(j)) = 1
            /\ jobs[j].pc \in {"toFile", "readFile", "hung"} => jobs[j].sent = 0)
    /\ [][\A j \in DOMAIN jobs :
            jobs[j].pc \in {"call", "done", "hung"} =>
               /\ jobs'[j].sent = jobs[j].sent
               /\ inFlight(j)' \subseteq inFlight(j)]_vars

\* The one call of a job failed, the error is shown, and nothing was sent again.
C6_Witness ==
    /\ Len(jobs) = 1 /\ jobs[1].pc = "done" /\ jobs[1].sent = 1
    /\ error # <<>> /\ error[1] = FailedPrefix
    /\ requests = {} /\ ~isLoading

\* C7: a step in which a failure is raised in a Generate job (the snapshot
\* conversion rejects, the file read fails, the call rejects, the response has
\* no candidates) ends with error beginning 'Failed to generate image. ',
\* isLoading false, editedImageUrl null, and baseImage, history, historyIndex,
\* activeFilter and prompt untouched.
C7_FailureEndsInErrorState ==
    [][\A j \in DOMAIN jobs :
          ( \/ readFailed(j) \/ callNoCandidates(j)
            \/ \E err \in Thrown : toFileRejected(j, err) \/ callRejected(j, err) ) =>
             /\ error' # <<>> /\ error'[1] = FailedPrefix
             /\ ~isLoading'
             /\ editedImageUrl' = <<>>
             /\ UNCHANGED <<baseImage, history, historyIndex, activeFilter, prompt>>]_vars

\* C8: whenever isLoading is true it eventually becomes false again.
C8_LoadingEnds == isLoading ~> ~isLoading

\* C9: at most one call is outstanding and at most one job is under way;
\* while either is, isLoading is true and the Generate button is disabled.
C9_OneRequestAtATime ==
    /\ Cardinality(requests) <= 1
    /\ Cardinality(running) <= 1
    /\ (requests # {} \/ running # {}) => isLoading /\ ~generateEnabled

\* A call is in flight for one file while another file has been uploaded and
\* a prompt is in place: only isLoading keeps the button disabled.
C9_Witness ==
    /\ \E j \in DOMAIN jobs : jobs[j].pc = "call" /\ jobs[j].name # baseImage
    /\ requests # {} /\ baseImage # NULL /\ trim(prompt) # <<>>

\* C10: every object URL created is eventually revoked, none is revoked more
\* than once, and none is revoked before its image has been drawn.
C10_ObjectUrlsReleased ==
    /\ \A u \in 1..MaxUrls :
          (u \in DOMAIN objectUrls) ~> (u \in DOMAIN objectUrls /\ objectUrls[u].revoked = 1)
    /\ [](\A u \in DOMAIN objectUrls :
            /\ objectUrls[u].revoked <= 1
            /\ objectUrls[u].revoked > 0 => objectUrls[u].drawn)

\* The positions of the parts that carry inline data.
inlinePositions(parts) == {i \in 1..Len(parts) : parts[i].inlineData # <<>>}

\* C11: when the service answers with parts, the edited image is built from
\* the last part that carries inline data; when no part carries inline data,
\* editedImageUrl is null and error is 'No image was generated. Please try a
\* different prompt.'.
C11_LastInlinePartShown ==
    [][\A j \in DOMAIN jobs : \A parts \in ResponseSamples(jobs[j].imageUrl) :
          callResolved(j, parts) =>
             IF inlinePositions(parts) # {}
             THEN \E i \in inlinePositions(parts) :
                     /\ \A k \in inlinePositions(parts) : k <= i
                     /\ editedImageUrl' = <<[dataUrl |-> parts[i].inlineData[1].data]>>
             ELSE /\ editedImageUrl' = <<>>
                  /\ error' = NoImageGenerated]_vars

\* The image shown is the second of two image parts of an answer.
C11_Witness ==
    /\ editedImageUrl # <<>> /\ editedImageUrl[1].dataUrl.variant = 2
    /\ ~isLoading

\* C12: a Generate job starts (and so a request can be issued) only from a
\* state with an uploaded image, a current history entry and a prompt with a
\* non-whitespace character; otherwise the click sets error to 'Please upload
\* an image and enter a prompt.', starts no job, issues no request and leaves
\* isLoading, editedImageUrl, history, historyIndex and activeFilter unchanged;
\* and a request is only ever issued by a job that was started.
C12_GenerateGuard ==
    [][ /\ Len(jobs') > Len(jobs) =>
              baseImage # NULL /\ currentImageState # <<>> /\ trim(prompt) # <<>>
        /\ ( /\ handleGenerateClick
             /\ (baseImage = NULL \/ currentImageState = <<>> \/ trim(prompt) = <<>>) ) =>
              /\ error' = InvalidInput
              /\ UNCHANGED <<isLoading, editedImageUrl, history, historyIndex, activeFilter,
                             jobs, requests>>
        /\ \A r \in requests' \ requests :
              r.job \in DOMAIN jobs /\ jobs[r.job].imageUrl # <<>> ]_vars

\* Generate was clicked with a file chosen and a prompt typed but no history
\* entry yet: the click was refused.
C12_Witness ==
    /\ error = InvalidInput /\ baseImage # NULL /\ history = <<>>
    /\ ~isLoading /\ jobs = <<>> /\ requests = {}

\* C13: once no decode callback is pending, every entry of history is a
\* snapshot of the currently uploaded image.
C13_HistoryOfCurrentUpload ==
    decodes = {} =>
       \A k \in 1..Len(history) : history[k].imageUrl.pixels = baseImage

\* |a - b|.
distance(a, b) == IF a < b THEN b - a ELSE a - b

\* C14: after the posterize loop every red, green and blue byte is one of 0,
\* 85, 170, 255 and no other of these four is nearer to the byte it replaced,
\* every alpha byte is the one it was, and a further run of the loop changes
\* no byte.
C14_PosterizeQuantises ==
    /\ [](imageData.passes >= 1 =>
            \A i \in 1..Len(imageData.data) :
               IF i % 4 = 0
               THEN imageData.data[i] = imageData.drawn[i]
               ELSE /\ imageData.data[i] \in {0, 85, 170, 255}
                    /\ \A l \in {0, 85, 170, 255} :
                          distance(imageData.data[i], imageData.drawn[i])
                             <= distance(l, imageData.drawn[i]))
    /\ [][imageData.passes >= 1 => imageData'.data = imageData.data]_vars

\* The loop has run twice on a buffer whose bytes sit on both sides of the
\* midpoint between two levels (42 -> 0, 43 -> 85) and whose alpha bytes are
\* neither 0 nor 255.
C14_Witness ==
    /\ imageData.passes = 2
    /\ imageData.drawn = <<43, 127, 212, 127, 127, 43, 171, 128>>
    /\ imageData.data = <<85, 85, 170, 127, 85, 85, 170, 128>>

\* C15: choosing a file makes it the uploaded image, clears the edited image
\* and the error and starts the decode of that file; when that decode
\* completes, history becomes exactly one entry {snapshot of that file,
\* 'none'}, historyIndex 0 and activeFilter 'none', whatever history held.
C15_UploadStartsFreshHistory ==
    [][ /\ \A file \in Files :
              handleImageChange(file) =>
                 /\ baseImage' = file
                 /\ editedImageUrl' = <<>> /\ error' = <<>>
                 /\ \E d \in decodes' \ decodes : d.kind = "upload" /\ d.file = file
        /\ \A d \in decodes \ decodes' :
              (d.kind = "upload" /\ Decodable(d.file)) =>
                 /\ history' = <<[imageUrl |-> [pixels |-> d.file, drawnWith |-> "none"],
                                  filter |-> "none"]>>
                 /\ historyIndex' = 0
                 /\ activeFilter' = "none" ]_vars

\* A second upload has completed after a Generate job had settled: nothing of
\* the job's result is left and history is the one entry of the new upload.
C15_Witness ==
    /\ nUrls = 2 /\ decodes = {} /\ baseImage = "a.png"
    /\ history = <<[imageUrl |-> toDataURL("a.png", "none"), filter |-> "none"]>>
    /\ historyIndex = 0 /\ activeFilter = "none"
    /\ Len(jobs) = 1 /\ jobs[1].pc = "done" /\ ~isLoading
    /\ editedImageUrl = <<>> /\ error = <<>>

\* The state Reset produces (the cells the component starts with).
initialView ==
    /\ baseImage = NULL /\ editedImageUrl = <<>> /\ prompt = <<>> /\ error = <<>>
    /\ activeFilter = "none" /\ history = <<>> /\ historyIndex = -1
    /\ zoom = ZoomReset

\* C16: Reset produces the initial state, and from that state every step that
\* is not a user action (a decode callback, a step of a Generate job) leaves
\* the editor in it.
C16_ResetStays ==
    [][ /\ handleReset => initialView'
        /\ (initialView /\ (decodeSettles \/ jobSettles)) => initialView' ]_vars

\* C17: a filter click without an upload or on the active filter changes none
\* of activeFilter, history, historyIndex, zoom and starts no decode; so every
\* step that starts a filter decode is a click, with an upload in place, on a
\* filter that was not the active one.
C17_FilterClickNoOp ==
    [][ /\ \A filter \in FilterNames :
              (handleFilterClick(filter) /\ (baseImage = NULL \/ activeFilter = filter)) =>
                 UNCHANGED <<activeFilter, history, historyIndex, zoom, decodes, objectUrls>>
        /\ \A d \in decodes' \ decodes :
              d.kind = "filter" =>
                 baseImage # NULL /\ d.filter # activeFilter /\ d.filter = activeFilter' ]_vars

\* A filter is active on a zoomed view with nothing pending: a click on that
\* filter's button is the no-op case.
C17_Witness ==
    /\ baseImage # NULL /\ activeFilter = "grayscale" /\ zoom.scale = 25
    /\ decodes = {} /\ Len(history) = 2

\* C18: in every reachable state with isLoading true, editedImageUrl and error
\* are null.
C18_NoStaleResultWhileLoading ==
    isLoading => editedImageUrl = <<>> /\ error = <<>>

\* A second Generate is under way after a first one has settled.
C18_Witness ==
    isLoading /\ Len(jobs) = 2 /\ jobs[1].pc = "done" /\ jobs[2].pc = "call"

\* C19: in the step in which isLoading returns to false, exactly one of
\* editedImageUrl and error is non-null.
C19_ExactlyOneOutcome ==
    [][(isLoading /\ ~isLoading') =>
          \/ editedImageUrl' # <<>> /\ error' = <<>>
          \/ editedImageUrl' = <<>> /\ error' # <<>>]_vars

\* A second Generate has settled with an image and no error.
C19_Witness ==
    /\ ~isLoading /\ Len(jobs) = 2 /\ jobs[2].pc = "done"
    /\ editedImageUrl # <<>> /\ error = <<>>

\* C20: no step of a Generate request (the click, the awaits, the settlement,
\* on success as on failure) changes history, historyIndex, activeFilter,
\* baseImage or prompt, and every history entry is a canvas snapshot of an
\* uploaded file, never a generated image.
C20_GenerateLeavesHistory ==
    /\ [][(handleGenerateClick \/ jobSettles) =>
            UNCHANGED <<history, historyIndex, activeFilter, baseImage, prompt>>]_vars
    /\ [](\A k \in 1..Len(history) :
            \E file \in Files, filter \in FilterNames :
               history[k].imageUrl = toDataURL(file, filter))

\* An edited image is shown beside a two-entry history.
C20_Witness ==
    /\ editedImageUrl # <<>> /\ ~isLoading
    /\ Len(history) = 2 /\ historyIndex = 1

\* C21: the snapshot a filter application stores is the clicked filter drawn
\* on the file that was the uploaded image at the click, whatever the history
\* holds: every history entry's snapshot is its own filter, and no other,
\* drawn on an uploaded file, and the entry a filter's decode callback appends
\* is determined by the clicked filter and that file alone.
C21_FiltersDoNotStack ==
    /\ [](\A k \in 1..Len(history) :
            /\ history[k].imageUrl.pixels \in Files
            /\ history[k].imageUrl.drawnWith = history[k].filter)
    /\ [][ /\ \A d \in decodes' \ decodes : d.kind = "filter" => d.file = baseImage
           /\ \A d \in decodes \ decodes' :
                 (d.kind = "filter" /\ Decodable(d.file)) =>
                    history'[Len(history')] =
                       [imageUrl |-> [pixels |-> d.file, drawnWith |-> d.filter],
                        filter |-> d.filter] ]_vars

\* Sepia was applied after grayscale: its snapshot is sepia on the raw upload.
C21_Witness ==
    /\ Len(history) = 3 /\ historyIndex = 2 /\ decodes = {}
    /\ history[2].filter = "grayscale"
    /\ history[3] = [imageUrl |-> [pixels |-> baseImage, drawnWith |-> "sepia"],
                     filter |-> "sepia"]

\* C26: in every reachable state with a non-empty history and no decode
\* callback pending, activeFilter is the filter of the current history entry.
C26_ActiveFilterIsCurrentEntry ==
    (history # <<>> /\ decodes = {}) =>
       /\ historyIndex >= 0 /\ historyIndex < Len(history)
       /\ activeFilter = history[historyIndex + 1].filter

\* C27: in every reachable state with a non-empty history, the first entry is
\* the unfiltered snapshot an upload created.
C27_FirstEntryIsUpload ==
    history # <<>> =>
       /\ history[1].filter = "none"
       /\ history[1].imageUrl.drawnWith = "none"

\* C28: in every reachable state with an edited image, an image is uploaded
\* and the edit was generated from a snapshot of that image.
C28_EditBelongsToUpload ==
    editedImageUrl # <<>> =>
       /\ baseImage # NULL
       /\ editedImageUrl[1].dataUrl.editOf[1].pixels = baseImage

\* C29: after one upload has decoded and two filters have then been clicked on
\* it one after the other, once both decode callbacks have run the history has
\* grown by exactly two entries (the upload's, the first filter's, the second
\* filter's), the two new entries carry different filters and historyIndex
\* points at the last.
C29_NoFilterApplicationLost ==
    (nUrls = 3 /\ decodes = {}) =>
       /\ Len(history) = 3 /\ historyIndex = 2
       /\ history[1].filter = "none"
       /\ history[2].filter # history[3].filter
       /\ history[3].filter = activeFilter

\* C22: in every reachable state 1 <= zoom.scale <= 10 (10..100 tenths); a
\* zoom-out by button or wheel at scale 1 leaves scale 1 and a zoom-in by
\* button or wheel at scale 10 leaves scale 10.
C22_ScaleClamped ==
    /\ [](zoom.scale >= 10 /\ zoom.scale <= 100)
    /\ [][ /\ ( /\ zoom.scale = 10
                /\ \/ \E delta \in ZoomDeltas : delta < 0 /\ handleZoomButtons(delta)
                   \/ \E deltaY \in WheelSamples : deltaY > 0 /\ handleWheel(deltaY) )
              => zoom'.scale = 10
           /\ ( /\ zoom.scale = 100
                /\ \/ \E delta \in ZoomDeltas : delta > 0 /\ handleZoomButtons(delta)
                   \/ \E deltaY \in WheelSamples : deltaY < 0 /\ handleWheel(deltaY) )
              => zoom'.scale = 100 ]_vars

\* Two zoom gestures have been handled and the scale stands at 10.
C22_Witness == zoom.scale = 100 /\ gestures = 2 /\ imageRendered

\* C23: in every reachable state zoom.scale = 1 implies zoom.x = 0 and
\* zoom.y = 0.
C23_UnzoomedNeverPanned ==
    zoom.scale = 10 => zoom.x = 0 /\ zoom.y = 0

\* C24: isPanning turns true only in a mouse down on a displayed image at
\* scale > 1, which registers the listeners and leaves zoom alone; the pan
\* offset changes, other than by a view reset, only while the listeners are
\* registered, and then the scale stays; a mouse move never changes the scale;
\* after a mouse up isPanning is false and no listener is registered, so that
\* isPanning holds exactly while the listeners are registered.
C24_PanBracketed ==
    /\ [](isPanning <=> listeners)
    /\ [][ /\ (~isPanning /\ isPanning') =>
                 /\ zoom.scale > 10 /\ imageRendered
                 /\ listeners' /\ zoom' = zoom
           /\ \A e \in MouseEvents :
                 (handleMouseDown(e) /\ (zoom.scale <= 10 \/ e.target # "img")) =>
                    UNCHANGED vars
           /\ ((zoom'.x # zoom.x \/ zoom'.y # zoom.y) /\ zoom' # ZoomReset) =>
                 /\ isPanning /\ listeners
                 /\ zoom'.scale = zoom.scale
           /\ \A me \in PointerSamples :
                 documentMouseMove(me) =>
                    /\ zoom'.scale = zoom.scale
                    /\ ~listeners => zoom' = zoom
           /\ documentMouseUp => (~isPanning' /\ ~listeners' /\ zoom' = zoom) ]_vars

\* A pan has been made and ended: the mouse button is up, the image is
\* zoomed in and displaced.
C24_Witness ==
    /\ ~isPanning /\ ~listeners
    /\ zoom.scale > 10 /\ zoom.x # 0 /\ zoom.y # 0
    /\ gestures >= 1

\* C25: immediately after a file is chosen, a filter click is accepted, an
\* Undo or Redo moves the pointer, a Generate response with an image part
\* arrives, or Reset is clicked, zoom is {scale 1, x 0, y 0}.
C25_ViewResetOnImageChange ==
    [][ /\ (\E file \in Files : handleImageChange(file)) => zoom' = ZoomReset
        /\ (\E filter \in FilterNames :
               /\ baseImage # NULL /\ activeFilter # filter
               /\ handleFilterClick(filter)) => zoom' = ZoomReset
        /\ (canUndo /\ handleUndo) => zoom' = ZoomReset
        /\ (canRedo /\ handleRedo) => zoom' = ZoomReset
        /\ (\E j \in DOMAIN jobs : \E parts \in ResponseSamples(jobs[j].imageUrl) :
               inlinePositions(parts) # {} /\ callResolved(j, parts)) => zoom' = ZoomReset
        /\ handleReset => zoom' = ZoomReset ]_vars

\* The view stands reset with an edited image shown and a Redo available.
C25_Witness ==
    /\ zoom = ZoomReset /\ editedImageUrl # <<>> /\ ~isLoading
    /\ canRedo /\ decodes = {}

\* C30: in part_001, once no decode callback of the effect is pending,
\* originalImageUrl is null exactly when originalImage is null, and otherwise
\* it is the snapshot of the current originalImage drawn with the current
\* activeFilter.
C30_PreviewMatchesSelection ==
    part001.decodes = {} =>
       /\ (part001.originalImageUrl = <<>>) <=> (part001.originalImage = NULL)
       /\ part001.originalImage # NULL =>
             part001.originalImageUrl =
                <<[pixels |-> part001.originalImage, drawnWith |-> part001.activeFilter]>>

====
